---- MODULE Spec2Model ----
(***************************************************************************)
(* A model of gns3converter.converter.Converter: the pipeline              *)
(*   process_topology -> generate_nodes -> generate_links                  *)
(* over a bounded family of legacy topologies, and of the pure helper      *)
(* device_typename over a bounded family of device-block keys.             *)
(*                                                                         *)
(* Python strings are strings, read as sequences of characters, so that    *)
(* startswith, replace, split, indexing, sorting and the regular           *)
(* expressions are computed the way the code computes them.  Python dicts  *)
(* are functions from strings, Python lists are sequences, Python None is  *)
(* the value None.                                                         *)
(***************************************************************************)
EXTENDS Integers, Sequences, FiniteSets, TLC

(***************************************************************************)
(* Bounds of the model.                                                    *)
(***************************************************************************)
\* the number of device blocks of one legacy topology
MaxDevices == 3
\* the number of words of the name that follows the prefix of a device-block key
MaxAtoms == 2

(***************************************************************************)
(* Python str: a string is the sequence of its characters; s[i] is         *)
(* SubSeq(s, i, i), a string of one character.                             *)
(***************************************************************************)
\* the characters of the model in code-point order
Ascii == "\n -./0123456789:ABCDEFGHIJKLMNOPQRSTUVWXYZ_abcdefghijklmnopqrstuvwxyz"

Char(s, i) == SubSeq(s, i, i)

Ord == [c \in {Char(Ascii, i) : i \in 1..Len(Ascii)} |->
          CHOOSE i \in 1..Len(Ascii) : Char(Ascii, i) = c]

IsDigit(c) == Ord[c] >= Ord["0"] /\ Ord[c] <= Ord["9"]

\* str.upper() of one character
Upper(c) == IF Ord[c] >= Ord["a"] /\ Ord[c] <= Ord["z"]
              THEN Char(Ascii, Ord[c] - Ord["a"] + Ord["A"])
              ELSE c

\* the order of Python strings: by code point, a proper prefix first
RECURSIVE StrLess(_, _)
StrLess(a, b) ==
    IF b = "" THEN FALSE
    ELSE IF a = "" THEN TRUE
    ELSE IF Head(a) = Head(b) THEN StrLess(Tail(a), Tail(b))
    ELSE Ord[Head(a)] < Ord[Head(b)]

\* sorted(S) of a set (the keys of a dict) of strings
RECURSIVE Sorted(_)
Sorted(S) ==
    IF S = {} THEN <<>>
    ELSE LET m == CHOOSE x \in S : \A y \in S \ {x} : StrLess(x, y)
         IN <<m>> \o Sorted(S \ {m})

\* s.startswith(p)
StartsWith(s, p) == Len(s) >= Len(p) /\ SubSeq(s, 1, Len(p)) = p

\* s.replace(old, new): every non-overlapping occurrence, left to right
RECURSIVE Replace(_, _, _)
Replace(s, old, new) ==
    IF s = "" THEN ""
    ELSE IF StartsWith(s, old)
           THEN new \o Replace(SubSeq(s, Len(old) + 1, Len(s)), old, new)
           ELSE Head(s) \o Replace(Tail(s), old, new)

\* s.split(sep) for a one-character separator
RECURSIVE Split(_, _)
Split(s, sep) ==
    IF \A i \in 1..Len(s) : Char(s, i) # sep THEN <<s>>
    ELSE LET k == CHOOSE i \in 1..Len(s) :
                     Char(s, i) = sep /\ \A j \in 1..(i - 1) : Char(s, j) # sep
         IN <<SubSeq(s, 1, k - 1)>> \o Split(SubSeq(s, k + 1, Len(s)), sep)

\* Python None, and str() of an id (a natural number or None)
None == -1

RECURSIVE Str(_)
Str(n) == IF n = None THEN "None"
          ELSE IF n < 10 THEN Char("0123456789", n + 1)
          ELSE Str(n \div 10) \o Char("0123456789", (n % 10) + 1)

\* int() of a string of digits
RECURSIVE ToInt(_)
ToInt(s) == IF Len(s) = 1 THEN Ord[s] - Ord["0"]
          ELSE 10 * ToInt(SubSeq(s, 1, Len(s) - 1)) + (Ord[Char(s, Len(s))] - Ord["0"])

(***************************************************************************)
(* device_typename                                                         *)
(***************************************************************************)
\* the prefixes in the order of the if/elif chain, each with its type tag
DevTypes ==
    << [from |-> "ROUTER", type |-> "Router"],
       [from |-> "QEMU",   type |-> "QEMU"],
       [from |-> "VBOX",   type |-> "VBOX"],
       [from |-> "FRSW",   type |-> "FrameRelaySwitch"],
       [from |-> "ETHSW",  type |-> "EthernetSwitch"],
       [from |-> "Hub",    type |-> "EthernetHub"],
       [from |-> "ATMSW",  type |-> "ATMSwitch"],
       [from |-> "ATMBR",  type |-> "ATMBR"],
       [from |-> "Cloud",  type |-> "Cloud"] >>

\* the fixed closed set of type tags
TypeTags == {DevTypes[i].type : i \in DOMAIN DevTypes}

\* the branch of the if/elif chain the key takes: 0 is the final else
TypeBranch(item) ==
    IF \E i \in DOMAIN DevTypes : StartsWith(item, DevTypes[i].from)
      THEN CHOOSE i \in DOMAIN DevTypes :
               /\ StartsWith(item, DevTypes[i].from)
               /\ \A j \in 1..(i - 1) : ~StartsWith(item, DevTypes[j].from)
      ELSE 0

\* device_typename that passes a key of no known prefix on as its own name
device_typename_Lenient(item) ==
    LET b == TypeBranch(item) IN
    IF b = 0
      THEN [err |-> "", name |-> item, type |-> "None"]
      ELSE [err |-> "",
            name |-> Replace(item, DevTypes[b].from \o " ", ""),
            type |-> DevTypes[b].type]

\* (name, dev_type) of a device-block key; with dev_type = None the
\* subscript dev_type['from'] raises TypeError
device_typename(item) ==
    LET b == TypeBranch(item) IN
    IF b = 0
      THEN [err |-> "TypeError", name |-> "", type |-> "None"]
      ELSE [err |-> "",
            name |-> Replace(item, DevTypes[b].from \o " ", ""),
            type |-> DevTypes[b].type]

(***************************************************************************)
(* Module globals and the Port Catalog                                     *)
(***************************************************************************)
\* the alternatives of interface_re; the pattern is written over two lines
\* without re.VERBOSE, so the line break belongs to one alternative
InterfaceAlts == <<"g", "gi", "f", "fa", "a", "at", "s", "se", "e", "et", "p",
                   "po", "i", "id", "IDS-Sensor\n", "an", "Analysis-Module">>

\* s starts with p, letters compared without case (re.IGNORECASE)
StartsWithCI(s, p) ==
    /\ Len(s) >= Len(p)
    /\ \A i \in 1..Len(p) : Upper(Char(s, i)) = Upper(Char(p, i))

\* the number of leading digits of s
RECURSIVE LeadingDigits(_)
LeadingDigits(s) ==
    IF s # "" /\ IsDigit(Head(s)) THEN 1 + LeadingDigits(Tail(s)) ELSE 0

\* interface_re.search(s): ^(alternatives)([0-9]+)/([0-9]+)
interface_re(s) ==
    \E a \in DOMAIN InterfaceAlts :
        /\ StartsWithCI(s, InterfaceAlts[a])
        /\ LET r == SubSeq(s, Len(InterfaceAlts[a]) + 1, Len(s))
               d == LeadingDigits(r)
           IN /\ d >= 1
              /\ Len(r) >= d + 2
              /\ Char(r, d + 1) = "/"
              /\ IsDigit(Char(r, d + 2))

\* ethswint_re.search(s): ^([0-9]+)
ethswint_re(s) == s # "" /\ IsDigit(Head(s))

\* self.model_transform, as __init__ builds it
model_transform ==
    [c \in {"2691", "3725", "3745", "7200"} |-> "c" \o c]
    @@ [c \in {"1720", "1721", "1750", "1751", "1760"} |-> "c1700"]
    @@ [c \in {"2620", "2621", "2610XM", "2611XM", "2620XM", "2621XM",
               "2650XM", "2651XM"} |-> "c2600"]
    @@ [c \in {"3620", "3640", "3660"} |-> "c3600"]

\* ports.PORT_TYPES: short interface prefix -> long family name
PORT_TYPES ==
    [G |-> "GigabitEthernet", F |-> "FastEthernet", E |-> "Ethernet",
     S |-> "Serial", A |-> "ATM", P |-> "POS", I |-> "IDS-Sensor"]

\* ports.ADAPTER_MATRIX: adapter card -> (port count, type code)
ADAPTER_MATRIX ==
    ("C7200-IO-GE-E" :> [ports |-> 1, type |-> "G"])
    @@ ("C7200-IO-2FE" :> [ports |-> 2, type |-> "F"])
    @@ ("Leopard-2FE" :> [ports |-> 2, type |-> "F"])
    @@ ("PA-2FE-TX" :> [ports |-> 2, type |-> "F"])
    @@ ("NM-1FE-TX" :> [ports |-> 1, type |-> "F"])

\* ports.MODEL_MATRIX: model -> chassis -> (motherboard port count, type code)
MODEL_MATRIX ==
    ("c7200" :> ("" :> [ports |-> 0, type |-> "F"]))
    @@ ("c3600" :> (("3660" :> [ports |-> 2, type |-> "F"])
                    @@ ("3640" :> [ports |-> 0, type |-> "F"])
                    @@ ("3620" :> [ports |-> 0, type |-> "F"])))

\* os.path.basename(path): what follows the last slash
basename(path) == LET parts == Split(path, "/") IN parts[Len(parts)]

(***************************************************************************)
(* The legacy topologies of the model: old_top as read_topology returns    *)
(* it, a dict of sections, each a dict of scalars and of blocks.  A key    *)
(* whose value is None is never copied by process_topology, so a block     *)
(* holds only the keys that have a value.                                  *)
(***************************************************************************)
H1 == "127.0.0.1:7200"
H2 == "127.0.0.1:7201"
DATA == "GNS3-DATA"

\* a device block: its section, its key and its key/value pairs
Block(sec, key, kv) == [sec |-> sec, key |-> key, kv |-> kv @@ [x |-> "0", y |-> "0"]]

Catalogue ==
    { Block(H1, "ROUTER R1", <<>>),
      Block(H1, "ROUTER R1", "f0/0" :> "R2 f0/0"),
      Block(H1, "ROUTER R1", "f0/0" :> "R1 f0/1"),
      Block(H1, "ROUTER R1", "f0/0" :> "Q1 e0"),
      Block(H1, "ROUTER R1", "f0/0" :> "S1 1"),
      Block(H1, "ROUTER R1", "fa0/0" :> "R2 f0/0"),
      Block(H1, "ROUTER R1", "f0/0" :> "nio_gen_eth:eth0"),
      Block(H1, "ROUTER R1", ("slot0" :> "C7200-IO-2FE") @@ ("slot1" :> "PA-2FE-TX")
                              @@ ("f1/0" :> "R2 f0/0")),
      Block(H1, "ROUTER R1", ("f0/0" :> "R2 f0/0") @@ ("f0/1" :> "R3 f0/0")),
      Block(H1, "ROUTER R2", <<>>),
      Block(H1, "ROUTER R2", "f0/0" :> "R1 f0/0"),
      Block(H1, "ROUTER R2", "f0/0" :> "R3 f0/0"),
      Block(H1, "ROUTER R3", "f0/0" :> "R2 f0/0"),
      Block(H2, "ROUTER R1", "f0/0" :> "R2 f0/0"),
      Block(H1, "QEMU Q1", <<>>),
      Block(H1, "PC P1", <<>>),
      Block(H1, "ETHSW S1", "1" :> "access 1 nio_gen_eth:eth0"),
      Block(H1, "ETHSW S1", ("1" :> "access 1 nio_gen_eth:eth0")
                             @@ ("2" :> "access 1 nio_gen_eth:eth1")),
      Block(H1, "ETHSW S1", ("1" :> "access 1 R1 f0/0")
                             @@ ("2" :> "dot1q 10 nio_gen_eth:eth0")),
      Block(DATA, "Cloud C1", "connections" :> "S1:1:nio_gen_eth:eth0"),
      Block(DATA, "Cloud C1",
            "connections" :> "S1:2:nio_gen_eth:eth1 S1:1:nio_gen_eth:eth0"),
      Block(DATA, "Cloud C2", "connections" :> "S1:2:nio_gen_eth:eth1") }

\* the sets of at most n blocks of the catalogue
RECURSIVE BlockSets(_)
BlockSets(n) ==
    IF n = 0 THEN {{}}
    ELSE LET P == BlockSets(n - 1)
         IN P \cup {B \cup {b} : B \in P, b \in Catalogue}

\* the hypervisor configuration blocks of a section, npe being the NPE of
\* the 7200 block (<<>> when the block has none)
ConfBlocks(sec, npe) ==
    IF sec = H1
      THEN "7200" :> [dict |-> TRUE,
                      val |-> ("image" :> "/i/c7200")
                              @@ (IF npe = <<>> THEN <<>> ELSE "npe" :> npe[1])]
    ELSE IF sec = H2
      THEN "3660" :> [dict |-> TRUE,
                      val |-> ("image" :> "/i/c3660") @@ ("chassis" :> "3660")]
    ELSE <<>>

\* the scalar entries of a section
Scalars(sec) ==
    IF sec = DATA THEN <<>> ELSE "workingdir" :> [dict |-> FALSE, val |-> "/tmp"]

Topology(B, npe) ==
    [sec \in {H1, H2, DATA} |->
        [key \in {b.key : b \in {c \in B : c.sec = sec}} |->
            [dict |-> TRUE,
             val |-> (CHOOSE b \in B : b.sec = sec /\ b.key = key).kv]]
        @@ ConfBlocks(sec, npe) @@ Scalars(sec)]

Topologies ==
    { Topology(B, npe) :
        B \in {C \in BlockSets(MaxDevices) :
                 \A b, c \in C : (b.sec = c.sec /\ b.key = c.key) => b = c},
        npe \in {<<>>, <<"npe-g2">>, <<"npe-400">>} }

(***************************************************************************)
(* The state of one run                                                    *)
(***************************************************************************)
VARIABLES
    old_top,     \* the legacy topology
    pc,          \* the function that is running, "done" or "error"
    err,         \* the exception that ended the run, "" when none
    instances,   \* process_topology: the list sorted(sections)
    inst_i,      \* process_topology: position in that list
    items,       \* process_topology: the list sorted(old_top[instance])
    item_j,      \* process_topology: position in that list
    devices,     \* process_topology: devices
    conf,        \* process_topology: conf
    hv_id,       \* process_topology: hv_id
    nid,         \* process_topology: nid
    origin,      \* for each device, the (section, key) of the block it was built from
    device_list, \* generate_nodes: the list sorted(devices)
    dev_k,       \* generate_nodes: position in that list
    nodes,       \* generate_nodes: nodes
    port_id,     \* self.port_id
    self_links,  \* self.links
    configs,     \* self.configs
    link_k,      \* generate_links: position of the first loop in self.links
    links,       \* generate_links: links
    it,          \* generate_links: the index the list iterator of the second loop holds
    link_id,     \* generate_links: link_id
    tn_item,     \* device_typename: item
    tn_device    \* device_typename: the result

vars == <<old_top, pc, err, instances, inst_i, items, item_j, devices, conf, hv_id, nid, origin,
          device_list, dev_k, nodes, port_id, self_links, configs, link_k, links, it,
          link_id, tn_item, tn_device>>

ptVars == <<instances, inst_i, items, item_j, devices, conf, hv_id, nid, origin>>
gnVars == <<device_list, dev_k, nodes, port_id, self_links, configs>>
glVars == <<link_k, links, it, link_id>>
tnVars == <<tn_item, tn_device>>

\* Converter.__init__ and the locals of the three functions before they run
Fresh ==
    /\ err = ""
    /\ inst_i = 1 /\ item_j = 1
    /\ devices = <<>> /\ conf = <<>> /\ hv_id = 0 /\ nid = 1 /\ origin = <<>>
    /\ device_list = <<>> /\ dev_k = 1 /\ nodes = <<>>
    /\ port_id = 1 /\ self_links = <<>> /\ configs = <<>>
    /\ link_k = 1 /\ links = <<>> /\ it = 0 /\ link_id = 1

\* the sections handed to process_topology
sections == DOMAIN old_top

Init ==
    /\ old_top \in Topologies
    /\ pc = "process_topology"
    /\ instances = Sorted(sections)
    /\ items = Sorted(DOMAIN old_top[instances[1]])
    /\ Fresh
    /\ tn_item = "" /\ tn_device = [err |-> "", name |-> "", type |-> ""]

(***************************************************************************)
(* process_topology                                                        *)
(***************************************************************************)
instance == instances[inst_i]
item == items[item_j]

InItemLoop ==
    /\ pc = "process_topology"
    /\ inst_i <= Len(instances)
    /\ item_j <= Len(items)

\* an entry that is no dict is passed over
ProcessScalar ==
    /\ InItemLoop
    /\ ~old_top[instance][item].dict
    /\ item_j' = item_j + 1
    /\ UNCHANGED <<old_top, pc, err, instances, inst_i, items, devices, conf, hv_id, nid, origin>>
    /\ UNCHANGED <<gnVars, glVars, tnVars>>

\* a configuration item
ProcessConf ==
    /\ InItemLoop
    /\ old_top[instance][item].dict
    /\ item \in DOMAIN model_transform
    /\ conf' = (hv_id :> (old_top[instance][item].val
                          @@ [model |-> model_transform[item]]))
               @@ conf
    /\ item_j' = item_j + 1
    /\ UNCHANGED <<old_top, pc, err, instances, inst_i, items, devices, hv_id, nid, origin>>
    /\ UNCHANGED <<gnVars, glVars, tnVars>>

\* the device of a physical item, before its model is settled
DeviceOf(type) ==
    old_top[instance][item].val
    @@ [node_id |-> nid, type |-> type]
    @@ (IF instance # DATA THEN [hv_id |-> hv_id] ELSE <<>>)

\* the exception the model lookup of a Router raises, "" when none
ModelError(dev) ==
    IF instance # DATA /\ dev["type"] = "Router"
      THEN IF "model" \notin DOMAIN dev
             THEN IF hv_id \in DOMAIN conf THEN "" ELSE "KeyError"
             ELSE IF dev["model"] \in DOMAIN model_transform THEN "" ELSE "KeyError"
      ELSE ""

\* the device with its model settled
WithModel(dev) ==
    IF instance # DATA /\ dev["type"] = "Router"
      THEN IF "model" \notin DOMAIN dev
             THEN [model |-> conf[hv_id]["model"]] @@ dev
             ELSE [model |-> model_transform[dev["model"]]] @@ dev
      ELSE dev

\* nid += 1
NextNid == nid + 1

\* a physical item
ProcessDevice ==
    /\ InItemLoop
    /\ old_top[instance][item].dict
    /\ item \notin DOMAIN model_transform
    /\ LET device == device_typename(item) IN
        /\ device.err = ""
        /\ ModelError(DeviceOf(device.type)) = ""
        /\ devices' = (device.name :> WithModel(DeviceOf(device.type))) @@ devices
        /\ origin' = (device.name :> <<instance, item>>) @@ origin
    /\ nid' = NextNid
    /\ item_j' = item_j + 1
    /\ UNCHANGED <<old_top, pc, err, instances, inst_i, items, conf, hv_id>>
    /\ UNCHANGED <<gnVars, glVars, tnVars>>

\* a physical item whose name or model raises: the run ends
ProcessDeviceFail ==
    /\ InItemLoop
    /\ old_top[instance][item].dict
    /\ item \notin DOMAIN model_transform
    /\ LET device == device_typename(item) IN
        /\ device.err # "" \/ ModelError(DeviceOf(device.type)) # ""
        /\ err' = IF device.err # "" THEN device.err
                  ELSE ModelError(DeviceOf(device.type))
    /\ pc' = "error"
    /\ UNCHANGED <<old_top, ptVars, gnVars, glVars, tnVars>>

\* the end of one section with nid set back to 1 for the next one
EndInstance_ResetsNid ==
    /\ pc = "process_topology"
    /\ inst_i <= Len(instances)
    /\ item_j > Len(items)
    /\ hv_id' = hv_id + 1
    /\ nid' = 1
    /\ inst_i' = inst_i + 1
    /\ items' = IF inst_i < Len(instances)
                  THEN Sorted(DOMAIN old_top[instances[inst_i + 1]])
                  ELSE <<>>
    /\ item_j' = 1
    /\ UNCHANGED <<old_top, pc, err, instances, devices, conf, origin>>
    /\ UNCHANGED <<gnVars, glVars, tnVars>>

\* the end of one section: hv_id += 1
EndInstance ==
    /\ pc = "process_topology"
    /\ inst_i <= Len(instances)
    /\ item_j > Len(items)
    /\ hv_id' = hv_id + 1
    /\ inst_i' = inst_i + 1
    /\ items' = IF inst_i < Len(instances)
                  THEN Sorted(DOMAIN old_top[instances[inst_i + 1]])
                  ELSE <<>>
    /\ item_j' = 1
    /\ UNCHANGED <<old_top, pc, err, instances, devices, conf, nid, origin>>
    /\ UNCHANGED <<gnVars, glVars, tnVars>>

\* return devices, conf; main goes on to generate_nodes(devices, conf)
ProcessReturn ==
    /\ pc = "process_topology"
    /\ inst_i > Len(instances)
    /\ pc' = "generate_nodes"
    /\ device_list' = Sorted(DOMAIN devices)
    /\ UNCHANGED <<old_top, err, ptVars, dev_k, nodes, port_id, self_links, configs>>
    /\ UNCHANGED <<glVars, tnVars>>

(***************************************************************************)
(* generate_nodes: the port and link calculations it calls                 *)
(***************************************************************************)
\* str.upper()
RECURSIVE UpperStr(_)
UpperStr(s) == IF s = "" THEN "" ELSE Upper(Head(s)) \o UpperStr(Tail(s))

\* calc_mb_ports with self.port_id = pid: the ports, the new self.port_id,
\* and the exception a missing MODEL_MATRIX entry raises
calc_mb_ports(model, device_chassis, pid) ==
    IF model \notin DOMAIN MODEL_MATRIX
       \/ device_chassis \notin DOMAIN MODEL_MATRIX[model]
      THEN [err |-> "KeyError", ports |-> <<>>, port_id |-> pid]
      ELSE LET num_ports == MODEL_MATRIX[model][device_chassis].ports
               port_type == MODEL_MATRIX[model][device_chassis].type
           IN [err |-> "",
               ports |-> [n \in 1..num_ports |->
                            [name |-> PORT_TYPES[port_type] \o "0/" \o Str(n - 1),
                             id |-> pid + (n - 1),
                             port_number |-> n - 1,
                             slot_number |-> 0]],
               port_id |-> pid + num_ports]

\* calc_slot_ports that forgets self.port_id += 1
calc_slot_ports_NoAdvance(adapter, slot, text, pid) ==
    IF adapter \notin DOMAIN ADAPTER_MATRIX
      THEN [err |-> "KeyError", ports |-> <<>>, port_id |-> pid]
      ELSE [err |-> "",
            ports |-> [n \in 1..ADAPTER_MATRIX[adapter].ports |->
                         [name |-> PORT_TYPES[ADAPTER_MATRIX[adapter].type]
                                   \o text \o "/" \o Str(n - 1),
                          id |-> pid,
                          port_number |-> n - 1,
                          slot_number |-> slot]],
            port_id |-> pid]

\* calc_slot_ports with self.port_id = pid; slot is the character item[4]
\* or the number 0, text is what '%s' makes of it
calc_slot_ports(adapter, slot, text, pid) ==
    IF adapter \notin DOMAIN ADAPTER_MATRIX
      THEN [err |-> "KeyError", ports |-> <<>>, port_id |-> pid]
      ELSE LET num_ports == ADAPTER_MATRIX[adapter].ports
               port_type == ADAPTER_MATRIX[adapter].type
           IN [err |-> "",
               ports |-> [n \in 1..num_ports |->
                            [name |-> PORT_TYPES[port_type] \o text \o "/" \o Str(n - 1),
                             id |-> pid + (n - 1),
                             port_number |-> n - 1,
                             slot_number |-> slot]],
               port_id |-> pid + num_ports]

\* calc_cloud_connection that names the port by the destination fields
calc_cloud_connection_Destination(connection, pid) ==
    LET c == Split(connection, ":") IN
    IF Len(c) < 4
      THEN [err |-> "IndexError", port |-> <<>>, nio |-> "", port_id |-> pid]
      ELSE LET nio == c[1] \o ":" \o c[2]
           IN [err |-> "",
               port |-> [id |-> pid, name |-> nio, stub |-> TRUE],
               nio |-> nio,
               port_id |-> pid + 1]

\* calc_cloud_connection with self.port_id = pid
calc_cloud_connection(connection, pid) ==
    LET c == Split(connection, ":") IN
    IF Len(c) < 4
      THEN [err |-> "IndexError", port |-> <<>>, nio |-> "", port_id |-> pid]
      ELSE LET nio == c[3] \o ":" \o c[4]
           IN [err |-> "",
               port |-> [id |-> pid, name |-> nio, stub |-> TRUE],
               nio |-> nio,
               port_id |-> pid + 1]

\* calc_ethsw_port that takes every port definition for one of 3 fields
calc_ethsw_port_AlwaysNio(port_num, port_def, pid) ==
    LET d == Split(port_def, " ") IN
    IF Len(d) < 3
      THEN [err |-> "IndexError", port |-> <<>>, destination |-> <<>>, port_id |-> pid]
      ELSE [err |-> "",
            port |-> [id |-> pid,
                      name |-> port_num,
                      port_number |-> ToInt(port_num),
                      type |-> d[1],
                      vlan |-> ToInt(d[2])],
            destination |-> [device |-> "NIO", port |-> d[3]],
            port_id |-> pid + 1]

\* calc_ethsw_port with self.port_id = pid
calc_ethsw_port(port_num, port_def, pid) ==
    LET d == Split(port_def, " ") IN
    IF Len(d) < 3
      THEN [err |-> "IndexError", port |-> <<>>, destination |-> <<>>, port_id |-> pid]
      ELSE [err |-> "",
            port |-> [id |-> pid,
                      name |-> port_num,
                      port_number |-> ToInt(port_num),
                      type |-> d[1],
                      vlan |-> ToInt(d[2])],
            destination |-> IF Len(d) = 4
                              THEN [device |-> d[3], port |-> d[4]]
                              ELSE [device |-> "NIO", port |-> d[3]],
            port_id |-> pid + 1]

calc_link(src_id, src_port, destination) ==
    [source_node_id |-> src_id,
     source_port_id |-> src_port,
     dest_dev |-> destination.device,
     dest_port |-> destination.port]

\* the id of the first port of the list with the name, dflt when none has it
PortIdByName(ports, port_name, dflt) ==
    IF \E n \in DOMAIN ports : ports[n].name = port_name
      THEN ports[CHOOSE n \in DOMAIN ports :
                     /\ ports[n].name = port_name
                     /\ \A m \in 1..(n - 1) : ports[m].name # port_name].id
      ELSE dflt

calc_router_links(connection, node_temp) ==
    LET int_type == Head(connection.from)
        int_name == Replace(connection.from, int_type, PORT_TYPES[Upper(int_type)])
        src_port == PortIdByName(node_temp.ports, int_name, 0)
        dest_temp == Split(connection.to, " ")
        conn_to == IF Len(dest_temp) = 2
                     THEN [device |-> dest_temp[1], port |-> dest_temp[2]]
                     ELSE [device |-> "NIO", port |-> dest_temp[1]]
    IN calc_link(node_temp.id, src_port, conn_to)

(***************************************************************************)
(* generate_nodes: the body of the loop over sorted(devices).  The locals  *)
(* and the fields of self it writes travel in one record:                  *)
(*   node_temp, props (node_temp_props), chassis (device_info['chassis']), *)
(*   connections and npe (<<>> for None, <<s>> for the string s),          *)
(*   interfaces, port_id, links (self.links), configs, err.                *)
(***************************************************************************)
\* lines 233-258
NodeStart(device) ==
    LET d == devices[device] IN
    [err |-> "",
     node_temp |-> [id |-> d["node_id"], server_id |-> 1, x |-> d["x"], y |-> d["y"]]
                   @@ (IF d["type"] = "EthernetSwitch" THEN [ports |-> <<>>] ELSE <<>>),
     props |-> [name |-> device],
     chassis |-> "",
     connections |-> <<>>,
     interfaces |-> <<>>,
     npe |-> <<>>,
     port_id |-> port_id,
     links |-> self_links,
     configs |-> configs]

\* for a c7200 the slot0 key is not copied to the properties
SlotKept(model, key) == model = "c7200" => key # "slot0"

\* one turn of the loop over sorted(devices[device]), lines 260-309
NodeItem(acc, device, key) ==
    LET d == devices[device]
        model == IF "model" \in DOMAIN d THEN d["model"] ELSE ""
    IN
    IF key = "hv_id" /\ d["type"] = "Router" THEN
        IF d[key] \notin DOMAIN conf \/ "image" \notin DOMAIN conf[d[key]]
          THEN [acc EXCEPT !.err = "KeyError"]
          ELSE LET hv == conf[d[key]] IN
               [acc EXCEPT
                  !.props = [k \in {"idlepc", "ram"} \cap DOMAIN hv |-> hv[k]]
                            @@ [image |-> basename(hv["image"])] @@ @,
                  !.npe = IF "npe" \in DOMAIN hv THEN <<hv["npe"]>> ELSE @,
                  !.chassis = IF "chassis" \in DOMAIN hv THEN hv["chassis"] ELSE @]
    ELSE IF key = "type" /\ d[key] = "Router" THEN
        [acc EXCEPT !.node_temp = [router_id |-> d["node_id"]] @@ @]
    ELSE IF key = "aux" \/ key = "console" THEN
        [acc EXCEPT !.props = (key :> d[key]) @@ @]
    ELSE IF StartsWith(key, "slot") THEN
        IF SlotKept(model, key)
          THEN [acc EXCEPT !.props = (key :> d[key]) @@ @]
          ELSE acc
    ELSE IF key = "connections" THEN
        [acc EXCEPT !.connections = <<d[key]>>]
    ELSE IF interface_re(key) THEN
        [acc EXCEPT !.interfaces = Append(@, [from |-> key, to |-> d[key]])]
    ELSE IF ethswint_re(key) THEN
        LET r == calc_ethsw_port(key, d[key], acc.port_id) IN
        IF r.err # "" THEN [acc EXCEPT !.err = r.err]
        ELSE IF "ports" \notin DOMAIN acc.node_temp
          THEN [acc EXCEPT !.err = "KeyError", !.port_id = r.port_id]
        ELSE [acc EXCEPT
                !.node_temp = [ports |-> Append(acc.node_temp.ports, r.port)] @@ @,
                !.port_id = r.port_id,
                !.links = Append(@, calc_link(acc.node_temp.id, r.port.id,
                                              r.destination))]
    ELSE IF key = "cnfg" THEN
        LET new_config == "i" \o Str(acc.node_temp.id) \o "_startup-config.cfg" IN
        [acc EXCEPT !.props = [startup_config |-> new_config] @@ @,
                    !.configs = Append(@, [old |-> d[key], new |-> new_config])]
    ELSE acc

\* the loop over sorted(devices[device]); an exception ends it
RECURSIVE NodeItems(_, _, _)
NodeItems(acc, device, keys) ==
    IF keys = <<>> \/ acc.err # "" THEN acc
    ELSE NodeItems(NodeItem(acc, device, Head(keys)), device, Tail(keys))

\* the loop over sorted(node_temp_props) of lines 318-322, keys being what
\* is left of the list: the ports of the slots are appended to r.ports
RECURSIVE SlotPorts(_, _, _)
SlotPorts(r, props, keys) ==
    IF keys = <<>> \/ r.err # "" THEN r
    ELSE IF StartsWith(Head(keys), "slot")
      THEN IF Len(Head(keys)) < 5
             THEN [r EXCEPT !.err = "IndexError"]
             ELSE LET slot == Char(Head(keys), 5)
                      c == calc_slot_ports(props[Head(keys)], slot, slot, r.port_id)
                  IN SlotPorts([err |-> c.err,
                                ports |-> r.ports \o c.ports,
                                port_id |-> c.port_id],
                               props, Tail(keys))
      ELSE SlotPorts(r, props, Tail(keys))

\* the default card chosen without a look at the NPE
DefaultAdapter_IgnoresNpe(npe) == "C7200-IO-2FE"

\* the adapter of the default slot-0 card of a c7200, lines 325-330
DefaultAdapter(npe) == IF npe = <<"npe-g2">> THEN "C7200-IO-GE-E" ELSE "C7200-IO-2FE"

\* the default ports of lines 324-334 added to r, and the properties
DefaultPorts(r, model, chassis, npe, props) ==
    IF r.err # "" THEN [r |-> r, props |-> props]
    ELSE IF model = "c7200"
      THEN LET c == calc_slot_ports(DefaultAdapter(npe), 0, "0", r.port_id)
           IN [r |-> [err |-> c.err, ports |-> r.ports \o c.ports,
                      port_id |-> c.port_id],
               props |-> props]
    ELSE IF model = "c3600"
      THEN [r |-> r,
            props |-> (IF chassis = "3660" THEN [slot0 |-> "Leopard-2FE"] ELSE <<>>)
                      @@ [chassis |-> chassis] @@ props]
    ELSE [r |-> r, props |-> props]

\* sorted(interfaces): a list of two or more dicts cannot be ordered
SortedInterfacesError(interfaces) == IF Len(interfaces) >= 2 THEN "TypeError" ELSE ""

\* lines 311-339: a Router
RouterNode(acc, device) ==
    LET model == IF "model" \in DOMAIN devices[device] THEN devices[device]["model"] ELSE ""
        mb == calc_mb_ports(model, acc.chassis, acc.port_id)
        sl == SlotPorts(mb, acc.props, Sorted(DOMAIN acc.props))
        df == DefaultPorts(sl, model, acc.chassis, acc.npe, acc.props)
        node == [description |-> "Router " \o model,
                 type |-> UpperStr(model),
                 ports |-> df.r.ports] @@ acc.node_temp
    IN IF df.r.err # "" THEN [acc EXCEPT !.err = df.r.err]
       ELSE IF SortedInterfacesError(acc.interfaces) # ""
         THEN [acc EXCEPT !.err = SortedInterfacesError(acc.interfaces),
                          !.port_id = df.r.port_id]
       ELSE [acc EXCEPT
               !.node_temp = node,
               !.props = df.props,
               !.port_id = df.r.port_id,
               !.links = @ \o [n \in DOMAIN acc.interfaces |->
                                 calc_router_links(acc.interfaces[n], node)]]

\* the loop over sorted(connections) of lines 349-352
RECURSIVE CloudPorts(_, _)
CloudPorts(r, tokens) ==
    IF tokens = <<>> \/ r.err # "" THEN r
    ELSE LET c == calc_cloud_connection(Head(tokens), r.port_id)
         IN CloudPorts([err |-> c.err,
                        ports |-> IF c.err = "" THEN Append(r.ports, c.port) ELSE r.ports,
                        nios |-> IF c.err = "" THEN Append(r.nios, c.nio) ELSE r.nios,
                        port_id |-> c.port_id],
                       Tail(tokens))

\* lines 341-352: a Cloud
CloudNode(acc, device) ==
    IF acc.connections = <<>> THEN [acc EXCEPT !.err = "AttributeError"]
    ELSE LET tokens == SortSeq(Split(acc.connections[1], " "), StrLess)
             c == CloudPorts([err |-> "", ports |-> <<>>, nios |-> <<>>,
                              port_id |-> acc.port_id], tokens)
         IN IF c.err # "" THEN [acc EXCEPT !.err = c.err]
            ELSE [acc EXCEPT
                    !.node_temp = [description |-> "Cloud", type |-> "Cloud",
                                   ports |-> c.ports] @@ @,
                    !.props = [nios |-> c.nios] @@ @,
                    !.port_id = c.port_id]

\* lines 311-358: the node by the type of the device
NodeByType(acc, device) ==
    LET type == devices[device]["type"] IN
    IF acc.err # "" THEN acc
    ELSE IF type = "Router" THEN RouterNode(acc, device)
    ELSE IF type = "Cloud" THEN CloudNode(acc, device)
    ELSE [acc EXCEPT !.node_temp = [description |-> type, type |-> type] @@ @]

\* the whole body of the loop for one device
NodeOf(device) ==
    LET acc == NodeByType(NodeItems(NodeStart(device), device,
                                    Sorted(DOMAIN devices[device])), device)
    IN IF acc.err # "" THEN acc
       ELSE [acc EXCEPT !.node_temp = [label |-> [text |-> device, x |-> 15, y |-> -25],
                                       properties |-> acc.props] @@ @]

(***************************************************************************)
(* generate_nodes                                                          *)
(***************************************************************************)
\* one device: its node is appended to nodes
GenerateNode ==
    /\ pc = "generate_nodes"
    /\ dev_k <= Len(device_list)
    /\ LET r == NodeOf(device_list[dev_k]) IN
        /\ r.err = ""
        /\ nodes' = Append(nodes, r.node_temp)
        /\ port_id' = r.port_id
        /\ self_links' = r.links
        /\ configs' = r.configs
    /\ dev_k' = dev_k + 1
    /\ UNCHANGED <<old_top, pc, err, ptVars, device_list, glVars, tnVars>>

\* one device whose node raises: the run ends
GenerateNodeFail ==
    /\ pc = "generate_nodes"
    /\ dev_k <= Len(device_list)
    /\ LET r == NodeOf(device_list[dev_k]) IN
        /\ r.err # ""
        /\ err' = r.err
    /\ pc' = "error"
    /\ UNCHANGED <<old_top, ptVars, gnVars, glVars, tnVars>>

\* return nodes; main goes on to generate_links(nodes)
NodesReturn ==
    /\ pc = "generate_nodes"
    /\ dev_k > Len(device_list)
    /\ pc' = "generate_links"
    /\ UNCHANGED <<old_top, err, ptVars, gnVars, glVars, tnVars>>

(***************************************************************************)
(* generate_links                                                          *)
(***************************************************************************)
\* the index of the first TRUE of a list of test results, 0 when there is
\* none: a for loop that breaks at the first hit
First(hits) ==
    IF \E n \in DOMAIN hits : hits[n]
      THEN CHOOSE n \in DOMAIN hits : hits[n] /\ \A m \in 1..(n - 1) : ~hits[m]
      ELSE 0

\* convert_destination_to_id: (device_id, port_id), and the KeyError that
\* node['ports'] raises for a node without ports
convert_destination_to_id(destination_node, destination_port, nodelist) ==
    LET Named(node) == node.properties.name = destination_node
        IsCloud(node) == node.type = "Cloud"
        n == IF destination_node # "NIO" THEN First([i \in DOMAIN nodelist |-> Named(nodelist[i])])
                                         ELSE First([i \in DOMAIN nodelist |-> IsCloud(nodelist[i])])
    IN IF n = 0 THEN [err |-> "", device_id |-> None, port_id |-> None]
       ELSE IF "ports" \notin DOMAIN nodelist[n]
         THEN [err |-> "KeyError", device_id |-> None, port_id |-> None]
       ELSE LET pid == PortIdByName(nodelist[n].ports, destination_port, None)
            IN [err |-> "",
                device_id |-> IF destination_node # "NIO" \/ pid # None
                                THEN nodelist[n].id ELSE None,
                port_id |-> pid]

\* the destination port with its interface prefix expanded, lines 373-379
ExpandedPort(dest_port) ==
    IF interface_re(dest_port)
      THEN Replace(dest_port, Head(dest_port), PORT_TYPES[Upper(Head(dest_port))])
      ELSE dest_port

\* the link of one symbolic link, lines 381-388
ResolvedLink(link) ==
    LET c == convert_destination_to_id(link.dest_dev, ExpandedPort(link.dest_port), nodes)
    IN [err |-> c.err,
        link |-> [destination_node_id |-> c.device_id,
                  destination_port_id |-> c.port_id,
                  source_port_id |-> link.source_port_id,
                  source_node_id |-> link.source_node_id]]

\* one turn of the first loop
ResolveLink ==
    /\ pc = "generate_links"
    /\ link_k <= Len(self_links)
    /\ LET r == ResolvedLink(self_links[link_k]) IN
        /\ r.err = ""
        /\ links' = Append(links, r.link)
    /\ link_k' = link_k + 1
    /\ UNCHANGED <<old_top, pc, err, ptVars, gnVars, it, link_id, tnVars>>

\* one turn of the first loop that raises: the run ends
ResolveLinkFail ==
    /\ pc = "generate_links"
    /\ link_k <= Len(self_links)
    /\ LET r == ResolvedLink(self_links[link_k]) IN
        /\ r.err # ""
        /\ err' = r.err
    /\ pc' = "error"
    /\ UNCHANGED <<old_top, ptVars, gnVars, glVars, tnVars>>

t_link(link) == Str(link.source_node_id) \o ":" \o Str(link.source_port_id)
d_link(link) == Str(link.destination_node_id) \o ":" \o Str(link.destination_port_id)

\* the list without its element at index n
RemoveAt(list, n) == SubSeq(list, 1, n - 1) \o SubSeq(list, n + 1, Len(list))

\* the annotation that writes the link id over the id of the port as well
Annotated_OverwritesId(ports, id, lid) ==
    LET HasId(port) == port.id = id
        n == First([i \in DOMAIN ports |-> HasId(ports[i])])
    IN IF n = 0 THEN ports ELSE [ports EXCEPT ![n] = [link_id |-> lid, id |-> lid] @@ @]

\* the ports with link_id set on the first port that has the id
Annotated(ports, id, lid) ==
    LET HasId(port) == port.id = id
        n == First([i \in DOMAIN ports |-> HasId(ports[i])])
    IN IF n = 0 THEN ports ELSE [ports EXCEPT ![n] = [link_id |-> lid] @@ @]

\* add_node_connections: the nodes after it
add_node_connections(link, nodelist) ==
    [n \in DOMAIN nodelist |->
        IF nodelist[n].id = link.source_node_id
          THEN [nodelist[n] EXCEPT !.ports = Annotated(@, link.source_port_id, link.id)]
        ELSE IF nodelist[n].id = link.destination_node_id
          THEN [nodelist[n] EXCEPT
                  !.ports = Annotated(@, link.destination_port_id, link.id)]
        ELSE nodelist[n]]

\* the second loop is at its element cur: the index of the link the inner
\* loop removes, 0 when it removes none.  links.remove(link2) removes the
\* first element equal to link2.
RemovedIndex(cur) ==
    LET Matches(link2) == d_link(link2) = t_link(links[cur])
        k == First([i \in DOMAIN links |-> Matches(links[i])])
        Equal(other) == other = links[k]
    IN IF k = 0 THEN 0 ELSE First([i \in DOMAIN links |-> Equal(links[i])])

\* where the element at index cur stands once index r is removed, 0 when it
\* was the one removed
IndexAfter(cur, r) == IF r = 0 \/ r > cur THEN cur ELSE IF r = cur THEN 0 ELSE cur - 1

\* one turn of the second loop, lines 392-404: the iterator hands out the
\* element at its index and steps on, the inner loop removes a link, the
\* link in hand gets the id and the nodes are annotated
DedupStep ==
    /\ pc = "generate_links"
    /\ link_k > Len(self_links)
    /\ it < Len(links)
    /\ LET cur == it + 1
           r == RemovedIndex(cur)
           link == [id |-> link_id] @@ links[cur]
           rest == IF r = 0 THEN links ELSE RemoveAt(links, r)
           at == IndexAfter(cur, r)
       IN /\ links' = IF at = 0 THEN rest ELSE [rest EXCEPT ![at] = link]
          /\ nodes' = add_node_connections(link, nodes)
    /\ it' = it + 1
    /\ link_id' = link_id + 1
    /\ UNCHANGED <<old_top, pc, err, ptVars, device_list, dev_k, port_id,
                   self_links, configs, link_k, tnVars>>

\* return links
LinksReturn ==
    /\ pc = "generate_links"
    /\ link_k > Len(self_links)
    /\ it >= Len(links)
    /\ pc' = "done"
    /\ UNCHANGED <<old_top, err, ptVars, gnVars, glVars, tnVars>>

Next ==
    \/ ProcessScalar
    \/ ProcessConf
    \/ ProcessDevice
    \/ ProcessDeviceFail
    \/ EndInstance
    \/ ProcessReturn
    \/ GenerateNode
    \/ GenerateNodeFail
    \/ NodesReturn
    \/ ResolveLink
    \/ ResolveLinkFail
    \/ DedupStep
    \/ LinksReturn

Spec == Init /\ [][Next]_vars

(***************************************************************************)
(* device_typename on its own, over the device-block keys made of a        *)
(* prefix, one separator and a name of at most MaxAtoms words              *)
(***************************************************************************)
Prefixes == {DevTypes[i].from : i \in DOMAIN DevTypes}

\* the words a name is made of
NameAtoms == {"R1", "1", "A-1"} \cup Prefixes

RECURSIVE NamesOf(_)
NamesOf(n) ==
    IF n <= 1 THEN NameAtoms
    ELSE LET P == NamesOf(n - 1)
         IN P \cup {p \o " " \o a : p \in P, a \in NameAtoms}

\* the keys of the model; "PC" is no known prefix
Keys == {p \o " " \o n : p \in Prefixes \cup {"PC"}, n \in NamesOf(MaxAtoms)}

InitTypename ==
    /\ tn_item \in Keys
    /\ tn_device = [err |-> "", name |-> "", type |-> ""]
    /\ pc = "device_typename"
    /\ old_top = <<>> /\ instances = <<>> /\ items = <<>>
    /\ Fresh

\* device_typename(item) returns
Typename ==
    /\ pc = "device_typename"
    /\ device_typename(tn_item).err = ""
    /\ tn_device' = device_typename(tn_item)
    /\ pc' = "done"
    /\ UNCHANGED <<old_top, err, ptVars, gnVars, glVars, tn_item>>

\* device_typename(item) raises
TypenameFail ==
    /\ pc = "device_typename"
    /\ device_typename(tn_item).err # ""
    /\ err' = device_typename(tn_item).err
    /\ pc' = "error"
    /\ UNCHANGED <<old_top, ptVars, gnVars, glVars, tnVars>>

NextTypename == Typename \/ TypenameFail

SpecTypename == InitTypename /\ [][NextTypename]_vars


(***************************************************************************)
(* The claims                                                              *)
(***************************************************************************)
Src(link) == <<link.source_node_id, link.source_port_id>>
Dst(link) == <<link.destination_node_id, link.destination_port_id>>

\* two links that connect the same unordered pair of ports
SamePair(a, b) ==
    \/ Src(a) = Src(b) /\ Dst(a) = Dst(b)
    \/ Src(a) = Dst(b) /\ Dst(a) = Src(b)

\* the links of the first loop of generate_links, before deduplication
Resolved == [k \in DOMAIN self_links |-> ResolvedLink(self_links[k]).link]

\* some port with the id, of the node with the id, carries the link id
HasLinkId(node_id, id, lid) ==
    \E n \in DOMAIN nodes :
        /\ nodes[n].id = node_id
        /\ "ports" \in DOMAIN nodes[n]
        /\ \E m \in DOMAIN nodes[n].ports :
              /\ nodes[n].ports[m].id = id
              /\ "link_id" \in DOMAIN nodes[n].ports[m]
              /\ nodes[n].ports[m].link_id = lid

\* the second loop of generate_links has an element to hand out
InDedup == pc = "generate_links" /\ link_k > Len(self_links) /\ it < Len(links)

\* C1: when generate_links has returned, no two returned links connect the
\* same unordered pair of ports, and of two symbolic links A->B and B->A
\* that resolve to the same pair of ports one link connecting the pair is
\* returned.
C1_MirroredLinksCollapse ==
    pc = "done" =>
        /\ \A i, j \in DOMAIN links : i # j => ~SamePair(links[i], links[j])
        /\ \A i, j \in DOMAIN Resolved :
              (i # j /\ Src(Resolved[i]) = Dst(Resolved[j])
                     /\ Dst(Resolved[i]) = Src(Resolved[j]))
              => \E n \in DOMAIN links : SamePair(links[n], Resolved[i])

\* C2: when generate_links has returned, every returned link carries an id
\* and the ids are 1, 2, ..., n in the order of the list.
C2_IdsSequential ==
    pc = "done" =>
        \A n \in DOMAIN links : "id" \in DOMAIN links[n] /\ links[n].id = n

\* C3: the link the deduplication is about to remove stands after the link
\* in hand, and it has no id yet.
C3_OnlyLaterLinkRemoved ==
    InDedup =>
        LET r == RemovedIndex(it + 1)
        IN r # 0 => (r > it + 1 /\ "id" \notin DOMAIN links[r])

\* C4: when generate_links has returned, the source port of every returned
\* link carries the id of the link, and so does its destination port when
\* the destination resolved to a node and a port.
C4_EndpointsAnnotated ==
    pc = "done" =>
        \A n \in DOMAIN links :
            /\ "id" \in DOMAIN links[n]
            /\ links[n].source_port_id # 0
                 => HasLinkId(links[n].source_node_id, links[n].source_port_id,
                              links[n].id)
            /\ (links[n].destination_node_id # None
                /\ links[n].destination_port_id # None)
                 => HasLinkId(links[n].destination_node_id,
                              links[n].destination_port_id, links[n].id)

\* C5: for every symbolic link generate_links is handed, resolving the
\* destination against the nodes of generate_nodes returns without an
\* exception.
C5_ResolveNeverRaises ==
    pc = "generate_links" =>
        \A k \in DOMAIN self_links : ResolvedLink(self_links[k]).err = ""

\* the (node id, port id) of the ports of Cloud nodes that have the name
CloudPortsNamed(port_name) ==
    UNION {{<<nodes[n].id, nodes[n].ports[m].id>> :
              m \in {i \in DOMAIN nodes[n].ports :
                        nodes[n].ports[i].name = port_name}} :
           n \in {i \in DOMAIN nodes : nodes[i].type = "Cloud"}}

\* C6: for a symbolic link to "NIO", convert_destination_to_id returns the
\* ids of a Cloud node and of its port with the name of the destination
\* port whenever some Cloud node has such a port, and null ids only when
\* none has.
C6_NioFindsAnyCloud ==
    pc = "generate_links" =>
        \A k \in DOMAIN self_links :
            self_links[k].dest_dev = "NIO" =>
                LET port_name == ExpandedPort(self_links[k].dest_port)
                    c == convert_destination_to_id("NIO", port_name, nodes)
                IN IF CloudPortsNamed(port_name) # {}
                     THEN <<c.device_id, c.port_id>> \in CloudPortsNamed(port_name)
                     ELSE c.device_id = None /\ c.port_id = None

\* C7: for a key that starts with a known prefix and one separator,
\* device_typename returns a type tag of the closed set and, as name, the
\* key without that leading prefix and separator.
C7_NameIsKeyWithoutPrefix ==
    (pc = "done" /\ tn_item # "") =>
        /\ tn_device.type \in TypeTags
        /\ \E p \in Prefixes :
              /\ StartsWith(tn_item, p \o " ")
              /\ tn_device.name = SubSeq(tn_item, Len(p) + 2, Len(tn_item))

\* the number of ports of the node with the name
CountNamed(node, port_name) ==
    Cardinality({m \in DOMAIN node.ports : node.ports[m].name = port_name})

\* the node is the one of a Router of model c7200
IsC7200(node) ==
    /\ devices[node.properties.name]["type"] = "Router"
    /\ devices[node.properties.name]["model"] = "c7200"

\* the NPE of the hypervisor of the node's device is npe-g2
HasNpeG2(node) ==
    LET hv == conf[devices[node.properties.name]["hv_id"]]
    IN "npe" \in DOMAIN hv /\ hv["npe"] = "npe-g2"

\* C8: the node of a c7200 router has exactly one port at slot 0 position
\* 0: GigabitEthernet0/0 when the NPE of its hypervisor is npe-g2,
\* FastEthernet0/0 otherwise, never both, also when the device has a slot0
\* key.
C8_C7200DefaultPort ==
    \A n \in DOMAIN nodes :
        IsC7200(nodes[n]) =>
            /\ CountNamed(nodes[n], "GigabitEthernet0/0")
                 = (IF HasNpeG2(nodes[n]) THEN 1 ELSE 0)
            /\ CountNamed(nodes[n], "FastEthernet0/0")
                 = (IF HasNpeG2(nodes[n]) THEN 0 ELSE 1)

\* generate_nodes has returned the node of a c7200 router that has a slot0
\* key and whose hypervisor has the NPE npe-g2
C8_Witness ==
    /\ pc = "generate_links"
    /\ \E n \in DOMAIN nodes :
          /\ IsC7200(nodes[n])
          /\ HasNpeG2(nodes[n])
          /\ "slot0" \in DOMAIN devices[nodes[n].properties.name]
          /\ CountNamed(nodes[n], "GigabitEthernet0/0") = 1

\* the ports of all nodes, in the order of the nodes and of their ports
RECURSIVE PortsOf(_)
PortsOf(nodelist) ==
    IF nodelist = <<>> THEN <<>>
    ELSE (IF "ports" \in DOMAIN Head(nodelist) THEN Head(nodelist).ports ELSE <<>>)
         \o PortsOf(Tail(nodelist))

\* C9: while and after generate_nodes runs, the ids of the ports of all the
\* nodes are 1, 2, ..., P in the order the ports were created, and the
\* counter self.port_id is P + 1.
C9_PortIdsSequential ==
    pc \in {"generate_nodes", "generate_links", "done"} =>
        LET all == PortsOf(nodes)
        IN /\ \A n \in DOMAIN all : all[n].id = n
           /\ port_id = Len(all) + 1

\* generate_nodes has returned a cloud, a router and a switch that have
\* ports, seven or more in all
C9_Witness ==
    /\ pc = "generate_links"
    /\ Len(PortsOf(nodes)) >= 7
    /\ \A t \in {"Cloud", "C7200", "EthernetSwitch"} :
          \E n \in DOMAIN nodes : nodes[n].type = t /\ Len(nodes[n].ports) >= 1

\* (section, key) a sorts before (section, key) b
KeyLess(a, b) == StrLess(a[1], b[1]) \/ (a[1] = b[1] /\ StrLess(a[2], b[2]))

\* C10: of two devices, the one whose (section name, device key) sorts
\* first has the smaller node id, the ids start at 1, and the nodes
\* generate_nodes emits have pairwise distinct ids.
C10_NodeIdsOrdered ==
    /\ \A d \in DOMAIN devices : devices[d]["node_id"] >= 1
    /\ \A d, e \in DOMAIN devices :
          KeyLess(origin[d], origin[e]) => devices[d]["node_id"] < devices[e]["node_id"]
    /\ \A m, n \in DOMAIN nodes : m # n => nodes[m].id # nodes[n].id

\* the run is over for a topology with two blocks "ROUTER R1", and two or
\* more nodes were emitted
C10_Witness ==
    /\ pc = "done"
    /\ "ROUTER R1" \in DOMAIN old_top[H1]
    /\ "ROUTER R1" \in DOMAIN old_top[H2]
    /\ Len(nodes) >= 2

\* the alternative of interface_re, by position, matches the start of s
AltMatches(s, a) ==
    /\ StartsWithCI(s, InterfaceAlts[a])
    /\ LET r == SubSeq(s, Len(InterfaceAlts[a]) + 1, Len(s))
           d == LeadingDigits(r)
       IN d >= 1 /\ Len(r) >= d + 2 /\ Char(r, d + 1) = "/" /\ IsDigit(Char(r, d + 2))

\* an interface key with its short prefix replaced by the long family name
LongName(key) ==
    LET a == CHOOSE a \in DOMAIN InterfaceAlts :
                 AltMatches(key, a) /\ \A b \in 1..(a - 1) : ~AltMatches(key, b)
    IN PORT_TYPES[Upper(Head(key))]
       \o SubSeq(key, Len(InterfaceAlts[a]) + 1, Len(key))

\* the node is the one of a device of the type
NodeOfType(node, type) == devices[node.properties.name]["type"] = type

\* C11: for every interface key of an emitted router, self.links holds a
\* link of that node whose source port id is the id of the node's port
\* named by the long form of the key, and 0 only when the node has no such
\* port.
C11_SourcePortFound ==
    \A n \in DOMAIN nodes :
        NodeOfType(nodes[n], "Router") =>
            \A key \in {k \in DOMAIN devices[nodes[n].properties.name] : interface_re(k)} :
                \E k \in DOMAIN self_links :
                    /\ self_links[k].source_node_id = nodes[n].id
                    /\ self_links[k].source_port_id
                         = PortIdByName(nodes[n].ports, LongName(key), 0)

\* the number of ports of the adapter cards of the slot keys of a property bag
RECURSIVE SlotPortCount(_, _)
SlotPortCount(props, keys) ==
    IF keys = <<>> THEN 0
    ELSE ADAPTER_MATRIX[props[Head(keys)]].ports + SlotPortCount(props, Tail(keys))

\* the node is the one of a Router of model c3600 and chassis 3660
IsC3660(node) ==
    /\ NodeOfType(node, "Router")
    /\ devices[node.properties.name]["model"] = "c3600"
    /\ "chassis" \in DOMAIN node.properties
    /\ node.properties["chassis"] = "3660"

\* C12: the node of a c3600 router of chassis 3660 has slot0 = Leopard-2FE
\* in its property bag, and its port list is made of the motherboard ports
\* and of the ports of the adapter of every slot key of the bag, the ports
\* of the Leopard-2FE card among them.
C12_Slot0SeededBeforeSlotLoop ==
    \A n \in DOMAIN nodes :
        IsC3660(nodes[n]) =>
            LET props == nodes[n].properties
                keys == Sorted({k \in DOMAIN props : StartsWith(k, "slot")})
            IN /\ "slot0" \in DOMAIN props
               /\ props["slot0"] = "Leopard-2FE"
               /\ Len(nodes[n].ports)
                    = MODEL_MATRIX["c3600"]["3660"].ports + SlotPortCount(props, keys)

\* the item process_topology is about to handle is a device block whose key
\* starts with none of the known prefixes
AtUnknownPrefix ==
    /\ InItemLoop
    /\ old_top[instance][item].dict
    /\ item \notin DOMAIN model_transform
    /\ \A p \in Prefixes : ~StartsWith(item, p)

\* the topology has a device block whose key starts with no known prefix
HasUnknownPrefix ==
    \E sec \in DOMAIN old_top :
        \E key \in DOMAIN old_top[sec] :
            /\ old_top[sec][key].dict
            /\ key \notin DOMAIN model_transform
            /\ \A p \in Prefixes : ~StartsWith(key, p)

\* C13: handling a device block whose key starts with none of the known
\* prefixes ends the run with the TypeError of device_typename and creates
\* no device, and process_topology never returns devices and conf for a
\* topology that has such a block.
C13_UnknownPrefixAborts ==
    /\ [][AtUnknownPrefix =>
            (pc' = "error" /\ err' = "TypeError" /\ devices' = devices /\ conf' = conf)]_vars
    /\ [](HasUnknownPrefix => pc \in {"process_topology", "error"})

\* the run has ended on the block "PC P1" after a device was created
C13_Witness ==
    /\ pc = "error"
    /\ err = "TypeError"
    /\ "PC P1" \in DOMAIN old_top[H1]
    /\ item = "PC P1"
    /\ "S1" \in DOMAIN devices

\* the string is made of digits only
AllDigits(s) == s # "" /\ \A i \in 1..Len(s) : IsDigit(Char(s, i))

\* the positions of the ports of the node that have the name
PortsNamed(node, port_name) ==
    {m \in DOMAIN node.ports : node.ports[m].name = port_name}

\* the positions in self.links of the links from the port of the node
LinksFrom(node, id) ==
    {k \in DOMAIN self_links :
        /\ self_links[k].source_node_id = node.id
        /\ self_links[k].source_port_id = id}

\* C14: for every numeric key of an emitted EthernetSwitch the node has
\* exactly one port named by the key, with the key's value as port number,
\* field 1 as type and field 2 as vlan, and self.links has exactly one link
\* from that port, to (field 3, field 4) when the value has 4 fields and to
\* ("NIO", field 3) when it has 3.
C14_SwitchPortAndLink ==
    \A n \in DOMAIN nodes :
        NodeOfType(nodes[n], "EthernetSwitch") =>
            \A key \in {k \in DOMAIN devices[nodes[n].properties.name] : AllDigits(k)} :
                LET f == Split(devices[nodes[n].properties.name][key], " ")
                    P == PortsNamed(nodes[n], key)
                IN /\ Cardinality(P) = 1
                   /\ \A m \in P :
                        LET port == nodes[n].ports[m]
                            L == LinksFrom(nodes[n], port.id)
                        IN /\ port.port_number = ToInt(key)
                           /\ port.type = f[1]
                           /\ port.vlan = ToInt(f[2])
                           /\ port.id >= 1 /\ port.id < port_id
                           /\ Cardinality(L) = 1
                           /\ \A k \in L :
                                IF Len(f) = 4
                                  THEN /\ self_links[k].dest_dev = f[3]
                                       /\ self_links[k].dest_port = f[4]
                                  ELSE /\ self_links[k].dest_dev = "NIO"
                                       /\ self_links[k].dest_port = f[3]

\* generate_nodes has returned a switch with a port of 4 fields and a port
\* of 3 fields, and self.links holds the link of each
C14_Witness ==
    /\ pc = "generate_links"
    /\ \E n \in DOMAIN nodes :
          /\ NodeOfType(nodes[n], "EthernetSwitch")
          /\ Len(nodes[n].ports) = 2
          /\ \E k \in DOMAIN self_links :
                self_links[k].source_node_id = nodes[n].id /\ self_links[k].dest_dev = "NIO"
          /\ \E k \in DOMAIN self_links :
                self_links[k].source_node_id = nodes[n].id /\ self_links[k].dest_dev = "R1"

\* the tokens of the connections property of the device, sorted
SortedTokens(name) == SortSeq(Split(devices[name]["connections"], " "), StrLess)

\* C15: an emitted Cloud node whose connections property holds n tokens of
\* 4 fields has n stub ports, the i-th named "<field 3>:<field 4>" of the
\* i-th token in sorted order, a nios list equal to the names of the ports,
\* and no link of self.links starts at the node.
C15_CloudStubPorts ==
    \A n \in DOMAIN nodes :
        NodeOfType(nodes[n], "Cloud") =>
            LET tokens == SortedTokens(nodes[n].properties.name)
                ports == nodes[n].ports
                nios == nodes[n].properties["nios"]
            IN /\ Len(ports) = Len(tokens)
               /\ Len(nios) = Len(tokens)
               /\ \A i \in DOMAIN tokens :
                    LET c == Split(tokens[i], ":")
                    IN /\ Len(c) = 4
                       /\ ports[i].name = c[3] \o ":" \o c[4]
                       /\ ports[i].stub
                       /\ nios[i] = ports[i].name
               /\ \A k \in DOMAIN self_links :
                    self_links[k].source_node_id # nodes[n].id

\* generate_nodes has returned a cloud of two connections that were not
\* written in sorted order, next to a switch that has links
C15_Witness ==
    /\ pc = "generate_links"
    /\ self_links # <<>>
    /\ \E n \in DOMAIN nodes :
          /\ NodeOfType(nodes[n], "Cloud")
          /\ Len(nodes[n].ports) = 2
          /\ Split(devices[nodes[n].properties.name]["connections"], " ")
               # SortedTokens(nodes[n].properties.name)

\* the interface keys of the device
InterfaceKeys(name) == {k \in DOMAIN devices[name] : interface_re(k)}

\* C16: generate_nodes never ends with an exception on a Router, whatever
\* the number of its interface keys, and self.links holds one link from an
\* emitted router for each of its interface keys.
C16_RouterLinksPerInterface ==
    /\ ~(/\ pc = "error"
         /\ dev_k <= Len(device_list)
         /\ devices[device_list[dev_k]]["type"] = "Router")
    /\ \A n \in DOMAIN nodes :
          NodeOfType(nodes[n], "Router") =>
              Cardinality({k \in DOMAIN self_links :
                             self_links[k].source_node_id = nodes[n].id})
                = Cardinality(InterfaceKeys(nodes[n].properties.name))

\* a port without its link back-reference
WithoutLinkId(port) == [f \in DOMAIN port \ {"link_id"} |-> port[f]]

\* the nodes with the link back-references of their ports taken away
Unlinked(nodelist) ==
    [n \in DOMAIN nodelist |->
        IF "ports" \in DOMAIN nodelist[n]
          THEN [nodelist[n] EXCEPT
                  !.ports = [m \in DOMAIN nodelist[n].ports |->
                               WithoutLinkId(nodelist[n].ports[m])]]
          ELSE nodelist[n]]

\* C17: a step of generate_links leaves the nodes and their ports as they
\* are but for the link_id of ports, and a step of generate_nodes leaves
\* the nodes it emitted before as they are.
C17_OnlyLinkIdChanges ==
    /\ [][pc = "generate_links" => Unlinked(nodes') = Unlinked(nodes)]_vars
    /\ [][pc = "generate_nodes" => SubSeq(nodes', 1, Len(nodes)) = nodes]_vars

\* generate_links has returned and ports of two nodes carry a link_id
C17_Witness ==
    /\ pc = "done"
    /\ \E m, n \in DOMAIN nodes :
          /\ m # n
          /\ "ports" \in DOMAIN nodes[m] /\ "ports" \in DOMAIN nodes[n]
          /\ \E i \in DOMAIN nodes[m].ports : "link_id" \in DOMAIN nodes[m].ports[i]
          /\ \E i \in DOMAIN nodes[n].ports : "link_id" \in DOMAIN nodes[n].ports[i]

\* C18: when generate_links has returned, every port that carries a
\* link_id is the source or the destination of a returned link with that
\* id, and no two returned links have the same id.
C18_LinkIdsPointAtReturnedLinks ==
    pc = "done" =>
        /\ \A n \in {i \in DOMAIN nodes : "ports" \in DOMAIN nodes[i]} :
              \A m \in {i \in DOMAIN nodes[n].ports : "link_id" \in DOMAIN nodes[n].ports[i]} :
                  \E k \in {i \in DOMAIN links : "id" \in DOMAIN links[i]} :
                      /\ links[k].id = nodes[n].ports[m].link_id
                      /\ \/ Src(links[k]) = <<nodes[n].id, nodes[n].ports[m].id>>
                         \/ Dst(links[k]) = <<nodes[n].id, nodes[n].ports[m].id>>
        /\ \A j, k \in {i \in DOMAIN links : "id" \in DOMAIN links[i]} :
              j # k => links[j].id # links[k].id

====
